---- MODULE Spec2Model ----
(***************************************************************************)
(* A model of the camera capture engine of cap-cv:                         *)
(*   recorder/camera.py  CameraCapture (start, stop, capture_frame,        *)
(*                       save_frame, capture_save_frame, run)              *)
(*   recorder/utils.py   should_stop, _maintain_fps, the device resolver   *)
(*   examples/run.py     main (the single-camera and multi-camera paths)   *)
(* Each session is a record of the fields of CameraCapture; the devices,   *)
(* the saved files and the clock are the environment.                      *)
(***************************************************************************)
EXTENDS Integers, Sequences, FiniteSets, TLC

VARIABLES
    platform,   \* platform.system(): "Windows", "Linux" or "Darwin"
    openable,   \* the device indices cv2.VideoCapture can open right now
    sess,       \* session id -> the fields of one CameraCapture
    ctl,        \* session id -> where the session's caller is (start/run locals)
    files,      \* session id -> the file names in the session's directory
    clock,      \* time.time(), in ticks of 1/TickHz second
    camera_ids, \* the priority list given to find_available_camera_from_list
    found,      \* what find_available_camera_from_list returned
    main        \* where main() is, its configuration, the directories made

vars == <<platform, openable, sess, ctl, files, clock, camera_ids, found, main>>

---------------------------------------------------------------------------
(* Bounds of the model *)

MaxDev == 1         \* devices 0..MaxDev exist on the machine
MaxFrames == 2      \* frames saved by one session
MaxClock == 3       \* the clock stops ticking here
MaxFps == 2         \* the largest fps value tried; also the ticks per second
MaxIds == 2         \* the longest priority list given to the resolver

(* Program constants *)

NumProbe == 10              \* range(10): the indices the resolver probes
DefaultMockWidth == 1280
DefaultMockHeight == 720
DirectShowAttempts == 6     \* the option sets start() tries on Windows

None == 0 - 1               \* Python's None where an integer is expected
TickHz == MaxFps

Devices == 0..MaxDev
Platforms == {"Windows", "Linux", "Darwin"}
FpsValues == {0, 1, MaxFps}

\* Text is a sequence of symbols: a character, or a word of the program's
\* texts taken whole ("camera", "mocked", "no", "user", ".jpg").
NoUser == <<"no", "_", "user">>     \* the default user_name, "no_user"
Labels == {NoUser, <<"u">>, <<"mocked", "_", "u">>}
Durations == {None, 0, 1}

---------------------------------------------------------------------------
(* Camera identifiers: an integer index or a string name (a sequence of    *)
(* characters).                                                            *)

CamInt(n) == [kind |-> "int", n |-> n, s |-> <<>>]
CamStr(s) == [kind |-> "str", n |-> 0, s |-> s]

CamIds == {CamInt(0), CamInt(1), CamStr(<<"1">>), CamStr(<<"c">>)}

Digits == {"0", "1", "2", "3", "4", "5", "6", "7", "8", "9"}

DigitVal(c) ==
    CASE c = "0" -> 0 [] c = "1" -> 1 [] c = "2" -> 2 [] c = "3" -> 3
      [] c = "4" -> 4 [] c = "5" -> 5 [] c = "6" -> 6 [] c = "7" -> 7
      [] c = "8" -> 8 [] c = "9" -> 9 [] OTHER -> 0

RECURSIVE DigitsVal(_)
DigitsVal(s) ==
    IF s = <<>> THEN 0
    ELSE 10 * DigitsVal(SubSeq(s, 1, Len(s) - 1)) + DigitVal(s[Len(s)])

\* int(s) of a string of the model's alphabet: None stands for ValueError
ParseInt(s) ==
    IF Len(s) > 0 /\ \A k \in 1..Len(s) : s[k] \in Digits
    THEN DigitsVal(s) ELSE None

\* s.split('x')
RECURSIVE SplitX(_)
SplitX(s) ==
    IF \A k \in 1..Len(s) : s[k] # "x" THEN <<s>>
    ELSE LET p == CHOOSE k \in 1..Len(s) :
                      s[k] = "x" /\ \A j \in 1..(k - 1) : s[j] # "x"
         IN <<SubSeq(s, 1, p - 1)>> \o SplitX(SubSeq(s, p + 1, Len(s)))

---------------------------------------------------------------------------
(* recorder/utils.py *)

get_platform_backend(p) ==
    IF p = "Windows" THEN "DirectShow"
    ELSE IF p = "Linux" THEN "V4L2" ELSE "AVFoundation"

\* The first index of range(10) that opens, or None.
FirstProbe(avail) ==
    IF \E d \in 0..(NumProbe - 1) : d \in avail
    THEN CHOOSE d \in 0..(NumProbe - 1) :
             d \in avail /\ \A e \in 0..(d - 1) : e \notin avail
    ELSE None

\* avail: the indices cv2.VideoCapture opens while the function runs
resolve_windows_camera_name(cid, avail) ==
    LET want == IF cid.kind = "int" THEN cid.n ELSE ParseInt(cid.s)
    IN IF want # None /\ want \in avail THEN want ELSE FirstProbe(avail)

\* The indices of range(10) that open, in ascending order, from d on.
RECURSIVE ProbeFrom(_, _)
ProbeFrom(d, avail) ==
    IF d >= NumProbe THEN <<>>
    ELSE (IF d \in avail THEN <<d>> ELSE <<>>) \o ProbeFrom(d + 1, avail)

\* On every platform a list of the indices 0..9 that open (on Linux those
\* whose /dev/video<i> exists and opens).
list_available_cameras(p, avail) == ProbeFrom(0, avail)

\* The loop over camera_ids from position k on, then the fallback.
RECURSIVE FindFrom(_, _, _, _)
FindFrom(k, ids, p, avail) ==
    IF k > Len(ids)
    THEN LET available_cameras == list_available_cameras(p, avail)
         IN IF available_cameras # <<>> THEN available_cameras[1] ELSE None
    ELSE IF p = "Windows"
         THEN LET resolved == resolve_windows_camera_name(ids[k], avail)
              IN IF resolved # None THEN resolved
                 ELSE FindFrom(k + 1, ids, p, avail)
         ELSE LET device_id == IF ids[k].kind = "int" THEN ids[k].n
                               ELSE ParseInt(ids[k].s)
              IN IF device_id # None /\ device_id \in avail THEN device_id
                 ELSE FindFrom(k + 1, ids, p, avail)

find_available_camera_from_list(ids, p, avail) == FindFrom(1, ids, p, avail)

\* should_stop testing `duration and ...`: a duration of 0 counts as none
should_stop_truthy(start_time, duration, now) ==
    duration # None /\ duration # 0 /\ (now - start_time) >= duration * TickHz

\* duration None: never; times in ticks, duration in seconds
should_stop(start_time, duration, now) ==
    duration # None /\ (now - start_time) >= duration * TickHz

\* The time _maintain_fps sleeps: the rest of the interval, never negative.
_maintain_fps(loop_start_time, frame_interval, now) ==
    LET elapsed == now - loop_start_time
    IN IF elapsed < frame_interval THEN frame_interval - elapsed ELSE 0

---------------------------------------------------------------------------
(* recorder/camera.py: the operations of CameraCapture on one session      *)
(* record s. s.cap is what self.cap refers to: None (obj false) or a       *)
(* cv2.VideoCapture object, open on device dev or not, on which release()  *)
(* was called rel times.                                                   *)

NoCap == [obj |-> FALSE, open |-> FALSE, dev |-> 0, rel |-> 0]

\* cv2.VideoCapture(dev) that opened
OpenCap(dev) == [obj |-> TRUE, open |-> TRUE, dev |-> dev, rel |-> 0]

\* cap.release()
Release(c) == [c EXCEPT !.open = FALSE, !.rel = @ + 1]

NewSession(cid, fps, mock) ==
    [camera_id |-> cid, fps |-> fps, use_mock_mode |-> mock,
     is_running |-> FALSE, cap |-> NoCap, frame_count |-> 0,
     mock_mode |-> FALSE,
     mock_width |-> DefaultMockWidth, mock_height |-> DefaultMockHeight]

_get_opencv_device_id(p, cid, avail) ==
    IF p = "Windows"
    THEN IF cid.kind = "str"
         THEN LET r == resolve_windows_camera_name(cid, avail)
              IN IF r # None THEN r ELSE 0
         ELSE cid.n
    ELSE IF cid.kind = "int" THEN cid.n ELSE 0

Size1920x1080 == <<"1", "9", "2", "0", "x", "1", "0", "8", "0">>

_get_format_options(s, input_format) ==
    [video_size |-> Size1920x1080, framerate |-> s.fps]

\* len(option_attempts)
NumAttempts(p) ==
    IF get_platform_backend(p) = "DirectShow" THEN DirectShowAttempts ELSE 1

\* a pass of the loop that leaves a handle that did not open in self.cap
start_attempt_keeps_failed(s, dev, opened) ==
    IF opened
    THEN [s |-> [s EXCEPT !.cap = OpenCap(dev), !.is_running = TRUE], done |-> TRUE]
    ELSE [s |-> [s EXCEPT !.cap = [OpenCap(dev) EXCEPT !.open = FALSE]],
          done |-> FALSE]

\* One pass of the loop of start(): self.cap = cv2.VideoCapture(device_id)
\* (the object self.cap referred to before loses its last reference, and its
\* destructor closes it); opened says whether isOpened() holds. A pass that
\* did not open releases the new object and sets self.cap = None.
start_attempt(s, dev, opened) ==
    IF opened
    THEN [s |-> [s EXCEPT !.cap = OpenCap(dev), !.is_running = TRUE], done |-> TRUE]
    ELSE [s |-> [s EXCEPT !.cap = NoCap], done |-> FALSE]

\* After every attempt failed.
start_fallback(s, input_format) ==
    LET s1 == [s EXCEPT !.is_running = TRUE]
    IN IF ~s.use_mock_mode THEN [s |-> s1, ret |-> FALSE]
       ELSE LET s2 == [s1 EXCEPT !.mock_mode = TRUE]
                parts == SplitX(_get_format_options(s, input_format).video_size)
                w == IF Len(parts) = 2 THEN ParseInt(parts[1]) ELSE None
                h == IF Len(parts) = 2 THEN ParseInt(parts[2]) ELSE None
                s3 == IF w = None THEN s2 ELSE [s2 EXCEPT !.mock_width = w]
                s4 == IF w = None \/ h = None THEN s3
                      ELSE [s3 EXCEPT !.mock_height = h]
            IN [s |-> s4, ret |-> TRUE]

\* stop() without the self.cap = None that ends it
stop_keeps_cap(s) ==
    [s |-> [s EXCEPT !.is_running = FALSE,
                     !.cap = IF s.cap.obj THEN Release(s.cap) ELSE s.cap],
     rel |-> IF s.cap.obj THEN 1 ELSE 0]

\* rel: the release() calls stop() made
stop(s) ==
    [s |-> [s EXCEPT !.is_running = FALSE, !.cap = NoCap],
     rel |-> IF s.cap.obj THEN 1 ELSE 0]

NoFrame == [kind |-> "none", w |-> 0, h |-> 0]

\* readOk: cap.read() returned a frame and cvtColor did not raise
capture_frame(s, readOk) ==
    IF ~s.is_running THEN NoFrame
    ELSE IF s.mock_mode
         THEN [kind |-> "mock", w |-> s.mock_width, h |-> s.mock_height]
         ELSE IF s.cap.obj /\ s.cap.open /\ readOk
              THEN [kind |-> "real", w |-> 0, h |-> 0]
              ELSE NoFrame

DigitChar(n) == <<"0", "1", "2", "3", "4", "5", "6", "7", "8", "9">>[n + 1]

\* str(n) of a natural number
RECURSIVE IntText(_)
IntText(n) ==
    IF n < 10 THEN <<DigitChar(n)>>
    ELSE IntText(n \div 10) \o <<DigitChar(n % 10)>>

\* f"{self.camera_id}"
CamText(cid) == IF cid.kind = "int" THEN IntText(cid.n) ELSE cid.s

\* strftime("%Y%m%d_%H%M%S_%f")[:-3] of the clock: the date, the seconds and
\* the fraction of the second, to the clock's resolution
TsText(now) ==
    <<"date", "_">> \o IntText(now \div TickHz) \o <<"_">> \o IntText(now % TickHz)

\* camera_<id>_<timestamp>_mocked_<user_name>.jpg in mock mode, else
\* camera_<id>_<timestamp>_<user_name>.jpg
FileName(s, now, label) ==
    <<"camera", "_">> \o CamText(s.camera_id) \o <<"_">> \o TsText(now)
        \o (IF s.mock_mode THEN <<"_", "mocked">> ELSE <<>>)
        \o <<"_">> \o label \o <<".jpg">>

\* save_frame() counting the frame before frame.save, which may raise
save_frame_counts_first(s, fl, now, label, saveOk) ==
    [s |-> [s EXCEPT !.frame_count = @ + 1],
     fl |-> IF saveOk THEN fl \cup {FileName(s, now, label)} ELSE fl,
     ret |-> IF saveOk THEN "path" ELSE "raised"]

\* saveOk: frame.save did not raise
save_frame(s, fl, now, label, saveOk) ==
    IF saveOk
    THEN [s |-> [s EXCEPT !.frame_count = @ + 1],
          fl |-> fl \cup {FileName(s, now, label)}, ret |-> "path"]
    ELSE [s |-> s, fl |-> fl, ret |-> "raised"]

capture_save_frame(s, fl, now, label, readOk, saveOk) ==
    IF ~s.is_running THEN [s |-> s, fl |-> fl, ret |-> "None"]
    ELSE IF capture_frame(s, readOk) = NoFrame
         THEN [s |-> s, fl |-> fl, ret |-> "None"]
         ELSE save_frame(s, fl, now, label, saveOk)

---------------------------------------------------------------------------
(* The environment *)

Held(d) == \E i \in DOMAIN sess : sess[i].cap.open /\ sess[i].cap.dev = d

\* Whether cv2.VideoCapture(d) opens: the device must be openable, and a
\* device some handle already holds opens again or not as the driver decides
\* (share).
Opens(d, share) == d \in openable /\ (share \/ ~Held(d))

Avail(share) == {d \in Devices : Opens(d, share)}

\* The caller's position. pc: "idle" (no call in progress), "start" (in the
\* loop of start(), before attempt k of n), and the positions of run().
IdleCtl ==
    [pc |-> "idle", inRun |-> FALSE, k |-> 0, n |-> 0, dev |-> 0,
     duration |-> None, start_time |-> 0, loop_start |-> 0, wake |-> 0,
     frame |-> NoFrame, raising |-> FALSE, last |-> "none",
     sig |-> "none", iters |-> 0, saves |-> 0,
     op |-> "none", ret |-> "none"]

Sessions == DOMAIN sess

\* find_available_camera_from_list has not been called
NotFound == [set |-> FALSE, val |-> None]

\* main() is not running: the session was made by another caller
NoMain == [pc |-> "none", fps |-> 0, duration |-> None, dirs |-> {}, exit |-> None]

LoopPcs == {"loop", "capture", "save", "check", "pace", "sleep"}

Init ==
    /\ platform \in Platforms
    /\ openable \in SUBSET Devices
    /\ sess \in [{1} -> {NewSession(c, MaxFps, m) : c \in CamIds, m \in BOOLEAN}]
    /\ ctl = [i \in {1} |-> IdleCtl]
    /\ files = [i \in {1} |-> {}]
    /\ clock = 0
    /\ camera_ids = <<>>
    /\ found = NotFound
    /\ main = NoMain

EnvChange ==
    /\ \E d \in Devices :
         openable' = IF d \in openable THEN openable \ {d} ELSE openable \cup {d}
    /\ UNCHANGED <<platform, sess, ctl, files, clock, camera_ids, found, main>>

Tick ==
    /\ clock < MaxClock
    /\ clock' = clock + 1
    /\ UNCHANGED <<platform, openable, sess, ctl, files, camera_ids, found, main>>

---------------------------------------------------------------------------
(* start(), one step per pass of its loop *)

\* The first lines of start(): the backend and the device id.
EnterStart(i, c) ==
    \E share \in BOOLEAN :
        ctl' = [ctl EXCEPT ![i] =
                  [c EXCEPT !.pc = "start", !.k = 1, !.n = NumAttempts(platform),
                            !.dev = _get_opencv_device_id(
                                        platform, sess[i].camera_id, Avail(share))]]

\* start() returns ret: to run() when run() called it, else to the caller.
ReturnFromStart(c, ret) ==
    IF c.inRun
    THEN [c EXCEPT !.pc = "run_started", !.k = 0, !.n = 0, !.dev = 0,
                   !.ret = IF ret THEN "True" ELSE "False"]
    ELSE [IdleCtl EXCEPT !.op = "start", !.ret = IF ret THEN "True" ELSE "False"]

StartBegin(i) ==
    /\ ctl[i].pc = "idle"
    /\ EnterStart(i, IdleCtl)
    /\ UNCHANGED <<platform, openable, sess, files, clock, camera_ids, found, main>>

StartAttempt(i) ==
    /\ ctl[i].pc = "start"
    /\ ctl[i].k <= ctl[i].n
    /\ \E share \in BOOLEAN :
         LET opened == Opens(ctl[i].dev, share)
             r == start_attempt(sess[i], ctl[i].dev, opened)
         IN /\ sess' = [sess EXCEPT ![i] = r.s]
            /\ ctl' = [ctl EXCEPT ![i] =
                         IF r.done THEN ReturnFromStart(@, TRUE)
                         ELSE [@ EXCEPT !.k = @ + 1]]
    /\ UNCHANGED <<platform, openable, files, clock, camera_ids, found, main>>

\* a failed open that closes every other session as well
StartFallback_StopsAll(i) ==
    /\ ctl[i].pc = "start"
    /\ ctl[i].k > ctl[i].n
    /\ LET r == start_fallback(sess[i], get_platform_backend(platform))
       IN /\ sess' = [j \in DOMAIN sess |->
                        IF j = i THEN r.s ELSE stop(sess[j]).s]
          /\ ctl' = [ctl EXCEPT ![i] = ReturnFromStart(@, r.ret)]
    /\ UNCHANGED <<platform, openable, files, clock, camera_ids, found, main>>

\* After the loop of start(): every attempt failed.
StartFallback(i) ==
    /\ ctl[i].pc = "start"
    /\ ctl[i].k > ctl[i].n
    /\ LET r == start_fallback(sess[i], get_platform_backend(platform))
       IN /\ sess' = [sess EXCEPT ![i] = r.s]
          /\ ctl' = [ctl EXCEPT ![i] = ReturnFromStart(@, r.ret)]
    /\ UNCHANGED <<platform, openable, files, clock, camera_ids, found, main>>

---------------------------------------------------------------------------
(* The other operations, called on a session no call is in progress on *)

StopCall(i) ==
    /\ ctl[i].pc = "idle"
    /\ LET r == stop(sess[i])
       IN /\ sess' = [sess EXCEPT ![i] = r.s]
          /\ ctl' = [ctl EXCEPT ![i] =
                       IF ctl[i].op \in {"stop", "stop_again"}
                       THEN [IdleCtl EXCEPT !.op = "stop_again", !.ret = ctl[i].ret]
                       ELSE [IdleCtl EXCEPT !.op = "stop",
                                            !.ret = IF r.rel = 1 THEN "released"
                                                    ELSE "nothing"]]
    /\ UNCHANGED <<platform, openable, files, clock, camera_ids, found, main>>

CaptureFrameCall(i) ==
    /\ ctl[i].pc = "idle"
    /\ \E readOk \in BOOLEAN :
         ctl' = [ctl EXCEPT ![i] =
                   [IdleCtl EXCEPT !.frame = capture_frame(sess[i], readOk)]]
    /\ UNCHANGED <<platform, openable, sess, files, clock, camera_ids, found, main>>

SaveFrameCall(i) ==
    /\ ctl[i].pc = "idle"
    /\ \E label \in Labels, saveOk \in BOOLEAN :
         LET r == save_frame(sess[i], files[i], clock, label, saveOk)
         IN /\ saveOk => sess[i].frame_count < MaxFrames
            /\ sess' = [sess EXCEPT ![i] = r.s]
            /\ files' = [files EXCEPT ![i] = r.fl]
            /\ ctl' = [ctl EXCEPT ![i] = IdleCtl]
    /\ UNCHANGED <<platform, openable, clock, camera_ids, found, main>>

CaptureSaveFrameCall(i) ==
    /\ ctl[i].pc = "idle"
    /\ \E label \in Labels, readOk \in BOOLEAN, saveOk \in BOOLEAN :
         LET r == capture_save_frame(sess[i], files[i], clock, label, readOk, saveOk)
         IN /\ r.ret = "path" => sess[i].frame_count < MaxFrames
            /\ sess' = [sess EXCEPT ![i] = r.s]
            /\ files' = [files EXCEPT ![i] = r.fl]
            /\ ctl' = [ctl EXCEPT ![i] = IdleCtl]
    /\ UNCHANGED <<platform, openable, clock, camera_ids, found, main>>

---------------------------------------------------------------------------
(* run(duration), one step per statement that reads the clock, the device  *)
(* or is_running. sig, iters and saves record a stop that arrived while    *)
(* the loop ran and what the loop did after it.                            *)

\* frame_interval = 1.0 / self.fps, in ticks (fps is 1 or TickHz here)
FrameInterval(fps) == TickHz \div fps

\* run() is called once on a session, as main() does
RunBegin(i) ==
    /\ ctl[i].pc = "idle"
    /\ ctl[i].op = "none"
    /\ \E d \in Durations :
         EnterStart(i, [IdleCtl EXCEPT !.inRun = TRUE, !.duration = d])
    /\ UNCHANGED <<platform, openable, sess, files, clock, camera_ids, found, main>>

\* if not self.start(): return; frame_interval = 1.0 / self.fps (outside the
\* try: a zero fps raises ZeroDivisionError here); start_time = time.time()
RunStarted(i) ==
    /\ ctl[i].pc = "run_started"
    /\ ctl' = [ctl EXCEPT ![i] =
                 IF @.ret = "False" THEN [IdleCtl EXCEPT !.op = "run", !.ret = "returned"]
                 ELSE IF sess[i].fps = 0
                      THEN [IdleCtl EXCEPT !.op = "run", !.ret = "raised"]
                      ELSE [@ EXCEPT !.pc = "loop", !.start_time = clock, !.ret = "none"]]
    /\ UNCHANGED <<platform, openable, sess, files, clock, camera_ids, found, main>>

\* the loop as `while True:`
LoopHead_Forever(i) ==
    /\ ctl[i].pc = "loop"
    /\ clock + FrameInterval(sess[i].fps) <= MaxClock
    /\ ctl' = [ctl EXCEPT ![i] =
                 [@ EXCEPT !.pc = "capture", !.loop_start = clock,
                           !.iters = IF ctl[i].sig = "none" THEN 0 ELSE @ + 1]]
    /\ UNCHANGED <<platform, openable, sess, files, clock, camera_ids, found, main>>

\* while self.is_running: loop_start = time.time()
\* (no pass begins that could not end before the clock stops)
LoopHead(i) ==
    /\ ctl[i].pc = "loop"
    /\ sess[i].is_running => clock + FrameInterval(sess[i].fps) <= MaxClock
    /\ ctl' = [ctl EXCEPT ![i] =
                 IF sess[i].is_running
                 THEN [@ EXCEPT !.pc = "capture", !.loop_start = clock,
                                !.iters = IF ctl[i].sig = "none" THEN 0 ELSE @ + 1]
                 ELSE [@ EXCEPT !.pc = "finally"]]
    /\ UNCHANGED <<platform, openable, sess, files, clock, camera_ids, found, main>>

\* a failed read that closes the session
LoopCapture_StopsOnFail(i) ==
    /\ ctl[i].pc = "capture"
    /\ \E readOk \in BOOLEAN :
         LET f == capture_frame(sess[i], readOk)
         IN /\ ctl' = [ctl EXCEPT ![i] =
                         IF f = NoFrame
                         THEN [@ EXCEPT !.pc = "check",
                                        !.last = IF sess[i].is_running
                                                 THEN "failed" ELSE "stopped"]
                         ELSE [@ EXCEPT !.pc = "save", !.frame = f]]
            /\ sess' = [sess EXCEPT ![i] = IF f = NoFrame THEN stop(@).s ELSE @]
    /\ UNCHANGED <<platform, openable, files, clock, camera_ids, found, main>>

\* capture_save_frame(), up to the frame capture_frame() returns
LoopCapture(i) ==
    /\ ctl[i].pc = "capture"
    /\ \E readOk \in BOOLEAN :
         LET f == capture_frame(sess[i], readOk)
         IN ctl' = [ctl EXCEPT ![i] =
                      IF f = NoFrame
                      THEN [@ EXCEPT !.pc = "check",
                                     !.last = IF sess[i].is_running
                                              THEN "failed" ELSE "stopped"]
                      ELSE [@ EXCEPT !.pc = "save", !.frame = f]]
    /\ UNCHANGED <<platform, openable, sess, files, clock, camera_ids, found, main>>

\* capture_save_frame(), the save_frame(frame, "no_user") that ends it
LoopSave(i) ==
    /\ ctl[i].pc = "save"
    /\ \E saveOk \in BOOLEAN :
         LET r == save_frame(sess[i], files[i], clock, NoUser, saveOk)
         IN /\ saveOk => sess[i].frame_count < MaxFrames
            /\ sess' = [sess EXCEPT ![i] = r.s]
            /\ files' = [files EXCEPT ![i] = r.fl]
            /\ ctl' = [ctl EXCEPT ![i] =
                         IF r.ret = "raised"
                         THEN [@ EXCEPT !.pc = "finally", !.raising = TRUE,
                                        !.frame = NoFrame]
                         ELSE [@ EXCEPT !.pc = "check", !.frame = NoFrame,
                                        !.last = "saved",
                                        !.saves = IF ctl[i].sig = "none" THEN 0
                                                  ELSE @ + 1]]
    /\ UNCHANGED <<platform, openable, clock, camera_ids, found, main>>

\* if should_stop(start_time, duration): break
LoopCheck(i) ==
    /\ ctl[i].pc = "check"
    /\ ctl' = [ctl EXCEPT ![i] =
                 IF should_stop(@.start_time, @.duration, clock)
                 THEN [@ EXCEPT !.pc = "finally"]
                 ELSE [@ EXCEPT !.pc = "pace"]]
    /\ UNCHANGED <<platform, openable, sess, files, clock, camera_ids, found, main>>

\* _maintain_fps(loop_start, frame_interval)
LoopPace(i) ==
    /\ ctl[i].pc = "pace"
    /\ LET nap == _maintain_fps(ctl[i].loop_start, FrameInterval(sess[i].fps), clock)
       IN ctl' = [ctl EXCEPT ![i] =
                    IF nap > 0 THEN [@ EXCEPT !.pc = "sleep", !.wake = clock + nap]
                    ELSE [@ EXCEPT !.pc = "loop"]]
    /\ UNCHANGED <<platform, openable, sess, files, clock, camera_ids, found, main>>

\* time.sleep returns
LoopWake(i) ==
    /\ ctl[i].pc = "sleep"
    /\ clock >= ctl[i].wake
    /\ ctl' = [ctl EXCEPT ![i] = [@ EXCEPT !.pc = "loop", !.wake = 0]]
    /\ UNCHANGED <<platform, openable, sess, files, clock, camera_ids, found, main>>

\* finally: self.stop(); run() returns, or raises what left the loop
RunFinally(i) ==
    /\ ctl[i].pc = "finally"
    /\ sess' = [sess EXCEPT ![i] = stop(@).s]
    /\ ctl' = [ctl EXCEPT ![i] =
                 [IdleCtl EXCEPT !.op = "run", !.last = ctl[i].last,
                                 !.ret = IF ctl[i].raising THEN "raised" ELSE "returned",
                                 !.sig = ctl[i].sig, !.iters = ctl[i].iters,
                                 !.saves = ctl[i].saves]]
    /\ UNCHANGED <<platform, openable, files, clock, camera_ids, found, main>>

\* KeyboardInterrupt: caught inside the try (the loop), where it leads to the
\* finally clause; before the try it leaves run() at once.
Interrupt(i) ==
    /\ ctl[i].inRun
    /\ ctl[i].pc \in LoopPcs \cup {"start", "run_started"}
    /\ ctl' = [ctl EXCEPT ![i] =
                 IF @.pc \in LoopPcs
                 THEN [@ EXCEPT !.pc = "finally", !.frame = NoFrame, !.wake = 0,
                                !.sig = IF @ = "none" THEN "interrupt" ELSE @]
                 ELSE [IdleCtl EXCEPT !.op = "run", !.ret = "raised"]]
    /\ UNCHANGED <<platform, openable, sess, files, clock, camera_ids, found, main>>

\* stop() called from another execution context while run() is in progress
ExternalStop(i) ==
    /\ ctl[i].inRun
    /\ sess' = [sess EXCEPT ![i] = stop(@).s]
    /\ ctl' = [ctl EXCEPT ![i] =
                 [@ EXCEPT !.sig = IF ctl[i].pc \in LoopPcs /\ @ = "none"
                                   THEN "stop" ELSE @]]
    /\ UNCHANGED <<platform, openable, files, clock, camera_ids, found, main>>

RunBody(i) ==
    \/ StartAttempt(i)
    \/ StartFallback(i)
    \/ RunStarted(i)
    \/ LoopHead(i)
    \/ LoopCapture(i)
    \/ LoopSave(i)
    \/ LoopCheck(i)
    \/ LoopPace(i)
    \/ LoopWake(i)
    \/ RunFinally(i)

RunStep(i) ==
    \/ RunBegin(i)
    \/ RunBody(i)

InitRun ==
    /\ platform \in Platforms
    /\ openable \in SUBSET Devices
    /\ sess \in [{1} -> {NewSession(c, f, m) :
                           c \in {CamInt(0), CamStr(<<"c">>)},
                           f \in FpsValues, m \in BOOLEAN}]
    /\ ctl = [i \in {1} |-> IdleCtl]
    /\ files = [i \in {1} |-> {}]
    /\ clock = 0
    /\ camera_ids = <<>>
    /\ found = NotFound
    /\ main = NoMain

\* The devices are looked at only by start(), and the clock only by the
\* loop: the environment's steps at other times change nothing run() sees.
RunEnvChange == (\E i \in Sessions : ctl[i].pc = "start") /\ EnvChange

RunTick == (\E i \in Sessions : ctl[i].pc \in LoopPcs) /\ Tick

NextRun ==
    \/ RunEnvChange
    \/ RunTick
    \/ \E i \in {1} :
         \/ RunBegin(i)
         \/ StartAttempt(i)
         \/ StartFallback(i)
         \/ RunStarted(i)
         \/ LoopHead(i)
         \/ LoopCapture(i)
         \/ LoopSave(i)
         \/ LoopCheck(i)
         \/ LoopPace(i)
         \/ LoopWake(i)
         \/ RunFinally(i)
         \/ Interrupt(i)
         \/ ExternalStop(i)

SpecRun == InitRun /\ [][NextRun]_vars

---------------------------------------------------------------------------
(* The device resolver, as a function of its inputs *)

RECURSIVE SeqsUpTo(_, _)
SeqsUpTo(S, n) ==
    IF n = 0 THEN {<<>>}
    ELSE LET shorter == SeqsUpTo(S, n - 1)
         IN shorter \cup {Append(q, x) : q \in shorter, x \in S}

InitResolve ==
    /\ platform \in Platforms
    /\ openable \in SUBSET Devices
    /\ camera_ids \in SeqsUpTo(CamIds, MaxIds)
    /\ found = NotFound
    /\ main = NoMain
    /\ sess = <<>>
    /\ ctl = <<>>
    /\ files = <<>>
    /\ clock = 0

FindCamera ==
    /\ ~found.set
    /\ found' = [set |-> TRUE,
                 val |-> find_available_camera_from_list(camera_ids, platform, openable)]
    /\ UNCHANGED <<platform, openable, sess, ctl, files, clock, camera_ids, main>>

NextResolve == FindCamera

SpecResolve == InitResolve /\ [][NextResolve]_vars

---------------------------------------------------------------------------
(* Several sessions at once: one worker per requested camera, each running *)
(* run(duration) on its own session, and a cancellation that asks every    *)
(* session still in its loop to stop.                                      *)

MultiIds == {1, 2}

\* Two requested cameras with distinct identifiers, the first allowed to fall
\* back to mock frames and the second not, on a machine where every device
\* opens at first.
InitMulti ==
    /\ platform = "Linux"
    /\ openable = Devices
    /\ sess = [i \in MultiIds |->
                 IF i = 1 THEN NewSession(CamInt(0), MaxFps, TRUE)
                 ELSE NewSession(CamStr(<<"c">>), MaxFps, FALSE)]
    /\ ctl = [i \in MultiIds |-> [IdleCtl EXCEPT !.duration = 1]]
    /\ files = [i \in MultiIds |-> {}]
    /\ clock = 0
    /\ camera_ids = <<>>
    /\ found = NotFound
    /\ main = NoMain

\* A device some worker is about to open appears or disappears.
MultiEnvChange ==
    /\ \E i \in MultiIds :
         /\ ctl[i].pc = "start"
         /\ LET d == ctl[i].dev
            IN openable' = IF d \in openable THEN openable \ {d}
                           ELSE openable \cup {d}
    /\ UNCHANGED <<platform, sess, ctl, files, clock, camera_ids, found, main>>

\* The worker of session i calls run(duration) with the shared duration.
WorkerBegin(i) ==
    /\ ctl[i].pc = "idle"
    /\ ctl[i].op = "none"
    /\ EnterStart(i, [IdleCtl EXCEPT !.inRun = TRUE, !.duration = ctl[i].duration])
    /\ UNCHANGED <<platform, openable, sess, files, clock, camera_ids, found, main>>

\* The cancellation asks a session still in its loop to close.
CancelWorker(i) ==
    /\ ctl[i].pc \in LoopPcs
    /\ ExternalStop(i)

NextMulti ==
    \/ MultiEnvChange
    \/ RunTick
    \/ \E i \in MultiIds :
         \/ WorkerBegin(i)
         \/ StartAttempt(i)
         \/ StartFallback(i)
         \/ RunStarted(i)
         \/ LoopHead(i)
         \/ LoopCapture(i)
         \/ LoopSave(i)
         \/ LoopCheck(i)
         \/ LoopPace(i)
         \/ LoopWake(i)
         \/ RunFinally(i)
         \/ CancelWorker(i)

SpecMulti == InitMulti /\ [][NextMulti]_vars

(* examples/run.py: main() with one requested camera. The cameras of the   *)
(* machine stay as they are while main() runs.                             *)

\* str(camera_id).replace(" ", "_").replace(":", "_")
SafeText(txt) ==
    [k \in 1..Len(txt) |-> IF txt[k] \in {" ", ":"} THEN "_" ELSE txt[k]]

\* Path(output_dir) / f"camera_{safe_camera_name}"
DirName(cid) == <<"camera", "_">> \o SafeText(CamText(cid))

\* effective_cameras, effective_fps and effective_duration as the
\* configuration gives them; int(...) accepts a zero fps
InitMain ==
    /\ platform \in Platforms
    /\ openable \in SUBSET Devices
    /\ camera_ids \in {<<c>> : c \in CamIds}
    /\ \E f \in FpsValues, d \in Durations :
         main = [pc |-> "find", fps |-> f, duration |-> d, dirs |-> {},
                 exit |-> None]
    /\ found = NotFound
    /\ sess = <<>>
    /\ ctl = <<>>
    /\ files = <<>>
    /\ clock = 0

\* best_camera = find_available_camera_from_list(effective_cameras)
MainFind ==
    /\ main.pc = "find"
    /\ found' = [set |-> TRUE,
                 val |-> find_available_camera_from_list(camera_ids, platform, openable)]
    /\ main' = [main EXCEPT !.pc = "construct"]
    /\ UNCHANGED <<platform, openable, sess, ctl, files, clock, camera_ids>>

\* camera = CameraCapture(best_camera or effective_cameras[0], ...,
\* use_mock_mode=True); the constructor makes the session's directory
MainConstruct ==
    /\ main.pc = "construct"
    /\ LET cid == IF found.val # None THEN CamInt(found.val) ELSE camera_ids[1]
       IN /\ sess' = <<NewSession(cid, main.fps, TRUE)>>
          /\ main' = [main EXCEPT !.pc = "run", !.dirs = @ \cup {DirName(cid)}]
    /\ ctl' = <<IdleCtl>>
    /\ files' = <<{}>>
    /\ UNCHANGED <<platform, openable, clock, camera_ids, found>>

\* camera.run(effective_duration)
MainRun ==
    /\ main.pc = "run"
    /\ EnterStart(1, [IdleCtl EXCEPT !.inRun = TRUE, !.duration = main.duration])
    /\ main' = [main EXCEPT !.pc = "running"]
    /\ UNCHANGED <<platform, openable, sess, files, clock, camera_ids, found>>

\* main() returns and the process exits 0, or an exception leaves main() and
\* the process exits 1
MainExit ==
    /\ main.pc = "running"
    /\ ctl[1].op = "run"
    /\ main' = [main EXCEPT !.pc = "exited",
                            !.exit = IF ctl[1].ret = "raised" THEN 1 ELSE 0]
    /\ UNCHANGED <<platform, openable, sess, ctl, files, clock, camera_ids, found>>

MainTick == main.pc = "running" /\ RunTick

NextMain ==
    \/ MainFind
    \/ MainConstruct
    \/ MainRun
    \/ MainExit
    \/ MainTick
    \/ main.pc = "running" /\ StartAttempt(1)
    \/ main.pc = "running" /\ StartFallback(1)
    \/ main.pc = "running" /\ RunStarted(1)
    \/ main.pc = "running" /\ LoopHead(1)
    \/ main.pc = "running" /\ LoopCapture(1)
    \/ main.pc = "running" /\ LoopSave(1)
    \/ main.pc = "running" /\ LoopCheck(1)
    \/ main.pc = "running" /\ LoopPace(1)
    \/ main.pc = "running" /\ LoopWake(1)
    \/ main.pc = "running" /\ RunFinally(1)
    \/ main.pc = "running" /\ Interrupt(1)

SpecMain == InitMain /\ [][NextMain]_vars

Next ==
    \/ EnvChange
    \/ \E i \in {1} :
         \/ StartBegin(i)
         \/ StartAttempt(i)
         \/ StartFallback(i)
         \/ StopCall(i)
         \/ CaptureFrameCall(i)
         \/ SaveFrameCall(i)
         \/ CaptureSaveFrameCall(i)

Spec == Init /\ [][Next]_vars

---------------------------------------------------------------------------
(* The claims about one session's operations (Spec) *)

\* C1: with use_mock_mode true, start() returns True and leaves the session
\* running, holding a real handle with mock_mode false or no handle with
\* mock_mode true.
C1_MockStartAlwaysRuns ==
    \A i \in Sessions :
        (ctl[i].op = "start" /\ sess[i].use_mock_mode) =>
            /\ ctl[i].ret = "True"
            /\ sess[i].is_running
            /\ \/ sess[i].cap.open /\ ~sess[i].mock_mode
               \/ sess[i].cap = NoCap /\ sess[i].mock_mode

\* C2: with use_mock_mode false, a start() whose attempts all failed returns
\* False and leaves the session not running, not in mock mode, holding no
\* handle.
C2_FailedStartIsFailed ==
    \A i \in Sessions :
        (ctl[i].op = "start" /\ ctl[i].ret = "False") =>
            /\ ~sess[i].use_mock_mode
            /\ ~sess[i].is_running
            /\ ~sess[i].mock_mode
            /\ sess[i].cap = NoCap

\* C4: stop() is idempotent: from any state a second stop() changes nothing
\* the first left, the session ends not running and holding no handle, and no
\* handle is released more than once.
C4_StopIdempotent ==
    \A i \in Sessions :
        LET r1 == stop(sess[i])
            r2 == stop(r1.s)
        IN /\ r2.s = r1.s
           /\ ~r1.s.is_running /\ r1.s.cap = NoCap
           /\ r1.rel + r2.rel <= 1
           /\ r1.rel = 1 <=> sess[i].cap.obj
           /\ sess[i].cap.rel = 0
           /\ ctl[i].op \in {"stop", "stop_again"} =>
                  ~sess[i].is_running /\ sess[i].cap = NoCap

\* two stop() calls in a row, the first of which released the handle
C4_Witness ==
    \E i \in Sessions :
        /\ ctl[i].op = "stop_again"
        /\ ctl[i].ret = "released"

\* C5: frame_count moves only by a successful save_frame, and then by
\* exactly 1; start, stop, capture_frame and a capture_save_frame that saved
\* nothing leave it alone.
C5_FrameCountStep ==
    [][\A i \in Sessions :
         LET fc == sess[i].frame_count
         IN /\ sess'[i].frame_count \in {fc, fc + 1}
            /\ sess'[i].frame_count = fc + 1 =>
                   /\ SaveFrameCall(i) \/ CaptureSaveFrameCall(i)
                   /\ files'[i] # {}
            /\ (StartBegin(i) \/ StartAttempt(i) \/ StartFallback(i)
                  \/ StopCall(i) \/ CaptureFrameCall(i)) =>
                   sess'[i].frame_count = fc
            /\ \A label \in Labels, readOk \in BOOLEAN :
                   /\ save_frame(sess[i], files[i], clock, label, TRUE).s.frame_count
                          = fc + 1
                   /\ save_frame(sess[i], files[i], clock, label, FALSE).s.frame_count
                          = fc
                   /\ capture_save_frame(sess[i], files[i], clock, label,
                                         readOk, FALSE).s.frame_count = fc
                   /\ capture_frame(sess[i], readOk) = NoFrame =>
                          capture_save_frame(sess[i], files[i], clock, label,
                                             readOk, TRUE).s.frame_count = fc
      ]_vars

\* two frames saved, one after the other
C5_Witness ==
    \E i \in Sessions : sess[i].frame_count = 2 /\ sess[i].is_running

---------------------------------------------------------------------------
(* The claims about run() (SpecRun, and FairRun for what must happen) *)

\* run() keeps taking its steps and the clock keeps ticking while it loops
FairRun == SpecRun /\ WF_vars(RunStep(1)) /\ WF_vars(RunTick)

\* C3: whenever run() has returned or raised, the session holds no handle.
C3_RunReleasesHandle ==
    \A i \in Sessions : ctl[i].op = "run" => sess[i].cap = NoCap

\* C6: a failed read in a running real-device session returns None and
\* changes nothing: same session record, no file; the loop goes on to its
\* duration check and from there to the next pass, which it leaves only when
\* the duration has elapsed or a stop or interrupt has arrived.
C6_FailedReadIsNoOp ==
    [][\A i \in Sessions :
         LET real == sess[i].is_running /\ ~sess[i].mock_mode /\ sess[i].cap.open
             c == ctl[i]
             d == ctl'[i]
         IN /\ real => capture_frame(sess[i], FALSE) = NoFrame
            /\ (real /\ c.pc = "capture" /\ d.pc \notin {"capture", "save", "finally"}) =>
                   /\ d.pc = "check" /\ d.last = "failed"
                   /\ sess'[i] = sess[i] /\ files'[i] = files[i]
            /\ (c.last = "failed" /\ c.pc = "check" /\ d.pc # "check") =>
                   \/ d.pc = "pace"
                   \/ d.pc = "finally"
                        /\ (should_stop(c.start_time, c.duration, clock) \/ d.sig # "none")
            /\ (c.last = "failed" /\ c.pc \in {"pace", "sleep"} /\ d.pc # c.pc) =>
                   d.pc \in {"sleep", "loop"} \/ d.sig # "none"
            /\ (c.last = "failed" /\ c.pc = "loop" /\ d.pc # "loop") =>
                   d.pc = "capture" \/ d.sig # "none"
            /\ (c.last = "failed" /\ c.pc \in {"check", "pace", "sleep", "loop"}
                  /\ c.sig = "none") => real
      ]_vars

\* the pass after a failed read has begun
C6_Witness ==
    \E i \in Sessions :
        /\ ctl[i].pc = "capture" /\ ctl[i].last = "failed" /\ ctl[i].sig = "none"
        /\ sess[i].is_running /\ sess[i].cap.open /\ sess[i].frame_count = 0

C10_AfterStop ==
    \A i \in Sessions :
        /\ ctl[i].sig # "none" => ctl[i].iters = 0 /\ ctl[i].saves <= 1
        /\ (ctl[i].op = "run" /\ ctl[i].sig # "none") =>
               sess[i].cap = NoCap /\ ~sess[i].is_running

\* C10: after a stop() from another context or an interrupt arrives while
\* run() loops, no further pass begins and at most the frame in hand is
\* saved; run() then ends, with the handle released and is_running false.
C10_StopEndsRun ==
    /\ []C10_AfterStop
    /\ \A i \in {1} : (ctl[i].sig # "none") ~> (ctl[i].op = "run")

\* run() ended by a stop() that arrived between capture and save
C10_Witness ==
    \E i \in Sessions :
        /\ ctl[i].op = "run" /\ ctl[i].sig = "stop" /\ ctl[i].saves = 1
        /\ sess[i].frame_count = 1

---------------------------------------------------------------------------
(* The claim about the device resolver (SpecResolve) *)

\* What an identifier opens as directly: its index, or None for a name that
\* is not a number.
DirectId(cid) == IF cid.kind = "int" THEN cid.n ELSE ParseInt(cid.s)

RECURSIVE FirstDirect(_, _, _)
FirstDirect(k, ids, avail) ==
    IF k > Len(ids) THEN None
    ELSE IF DirectId(ids[k]) # None /\ DirectId(ids[k]) \in avail
         THEN DirectId(ids[k])
         ELSE FirstDirect(k + 1, ids, avail)

\* The two-phase policy: the first listed identifier that opens directly;
\* when none does, the first of the indices 0..9 that opens; else None.
TwoPhase(ids, avail) ==
    LET d == FirstDirect(1, ids, avail)
    IN IF d # None THEN d ELSE FirstProbe(avail)

\* C7: on every platform find_available_camera_from_list returns what the
\* two-phase policy returns: it probes the indices 0..9 only after every
\* listed identifier failed to open directly.
C7_TwoPhaseOnEveryPlatform ==
    found.set => found.val = TwoPhase(camera_ids, openable)

---------------------------------------------------------------------------
(* The claims about sessions running at once (SpecMulti) *)

\* session i could not open its device: it fell back to mock frames, or its
\* start() returned False to run()
OpenFailed(i) ==
    \/ sess[i].mock_mode
    \/ ctl[i].pc = "run_started" /\ ctl[i].ret = "False"

C8_FailureHoldsNothing ==
    \A i \in Sessions : OpenFailed(i) => ~sess[i].cap.open

C9_OneHolderPerDevice ==
    \A i \in Sessions : \A j \in Sessions :
        (i # j /\ sess[i].camera_id # sess[j].camera_id
           /\ sess[i].cap.open /\ sess[j].cap.open) =>
            sess[i].cap.dev # sess[j].cap.dev

---------------------------------------------------------------------------
(* The claims about the duration of run() (FairRun, SpecRun) *)

C11_DurationCheck ==
    /\ \A st \in 0..MaxClock, now \in 0..MaxClock :
         /\ ~should_stop(st, None, now)
         /\ \A d \in Durations \ {None} :
                should_stop(st, d, now) <=> (now - st >= d * TickHz)
    /\ \A i \in Sessions :
         (ctl[i].pc = "finally" /\ ctl[i].duration = None) =>
             ctl[i].sig # "none" \/ ~sess[i].is_running \/ ctl[i].raising

---------------------------------------------------------------------------
(* The claims about file names (Spec) *)

\* C12: every successful save_frame of a session writes a file no earlier
\* save_frame of the session wrote.
C12_SaveNeverOverwrites ==
    [][\A i \in Sessions :
         sess'[i].frame_count = sess[i].frame_count + 1 =>
             files'[i] # files[i]
      ]_vars

\* the name save_frame gives for camera identifier cid, time ts, mock flag m
\* and label l
NameOf(cid, ts, m, l) ==
    FileName([camera_id |-> cid, mock_mode |-> m], ts, l)

\* C13: a saved file's name comes from one timestamp, mock flag and label
\* only: saves of one camera that differ in the mock flag or the label give
\* different names at the same timestamp.
C13_NameDeterminesInputs ==
    \A i \in Sessions : \A n \in files[i] :
        \A ts \in 0..MaxClock, m1 \in BOOLEAN, m2 \in BOOLEAN,
           l1 \in Labels, l2 \in Labels :
            (NameOf(sess[i].camera_id, ts, m1, l1) = n
               /\ NameOf(sess[i].camera_id, ts, m2, l2) = n) =>
                (m1 = m2 /\ l1 = l2)

---------------------------------------------------------------------------
(* The claims about main() (SpecMain) *)

\* C14: the exit status is 0 when a session saved a frame and is not 0 when
\* no session saved any.
C14_ExitStatusTellsFrames ==
    main.pc = "exited" =>
        (main.exit = 0 <=> \E i \in Sessions : sess[i].frame_count >= 1)

\* the text _mocked in a name saved with the loop's label
IsMockedName(n) == \E k \in 1..Len(n) : n[k] = "mocked"

\* C15: when the one requested camera, index 0, does not open, one session
\* directory is made and every frame saved is marked mocked, whatever other
\* indices open.
C15_Camera0DownAllMocked ==
    (main.pc # "none" /\ camera_ids = <<CamInt(0)>> /\ 0 \notin openable) =>
        /\ Cardinality(main.dirs) <= 1
        /\ main.pc \in {"run", "running", "exited"} => Cardinality(main.dirs) = 1
        /\ \A i \in Sessions : \A n \in files[i] : IsMockedName(n)

\* C17: with an fps that is not positive no device is opened and no session
\* becomes running.
C17_InvalidFpsStartsNothing ==
    (main.pc # "none" /\ main.fps <= 0) =>
        \A i \in Sessions : ~sess[i].cap.open /\ ~sess[i].is_running

---------------------------------------------------------------------------
(* The claims about the states of one session (Spec, SpecRun) *)

\* C16: every mock frame capture_frame returns is 1280 by 720.
C16_MockFrameIsDefaultSize ==
    \A i \in Sessions :
        ctl[i].frame.kind = "mock" =>
            /\ ctl[i].frame.w = DefaultMockWidth
            /\ ctl[i].frame.h = DefaultMockHeight

\* C18: start() tries its option sets in order, one per pass: a pass that
\* does not open leaves no handle and goes on to the next, the first pass
\* that opens ends start() with True, and after the last pass failed the
\* session holds no handle; no handle held is ever one that was released.
C18_AttemptsInOrder ==
    [][\A i \in {1} :
         LET c == ctl[i]
             d == ctl'[i]
         IN /\ (c.pc = "idle" /\ d.pc = "start") =>
                   d.k = 1 /\ d.n = NumAttempts(platform)
            /\ (c.pc = "start" /\ d # c) =>
                   \/ /\ d.pc = "start" /\ d.k = c.k + 1 /\ c.k <= c.n
                      /\ sess'[i].cap = NoCap
                   \/ /\ d.pc # "start" /\ c.k <= c.n /\ d.ret = "True"
                      /\ sess'[i].cap = OpenCap(c.dev)
                   \/ /\ d.pc # "start" /\ c.k = c.n + 1
                      /\ sess'[i].cap = NoCap
            /\ (c.pc = "start" /\ c.k > 1) => sess[i].cap = NoCap
            /\ sess[i].cap.rel = 0
      ]_vars

\* on Windows, two option sets failed and the third is about to be tried
C18_Witness ==
    \E i \in Sessions :
        /\ ctl[i].pc = "start" /\ ctl[i].k = 3 /\ ctl[i].n = DirectShowAttempts
        /\ sess[i].cap = NoCap

\* C19: between calls, the session holds a handle exactly when it is running
\* and not in mock mode.
C19_HandleIffRunningReal ==
    \A i \in Sessions :
        ctl[i].pc = "idle" =>
            (sess[i].cap.obj <=> (sess[i].is_running /\ ~sess[i].mock_mode))

\* C20: with a finite duration, every capture_save_frame of the loop starts
\* at a time since start_time that is less than the duration.
C20_NoCaptureAfterDuration ==
    \A i \in Sessions :
        (ctl[i].pc = "capture" /\ ctl[i].duration # None) =>
            ~should_stop(ctl[i].start_time, ctl[i].duration, ctl[i].loop_start)

====
